---- MODULE Spec2Model ----
(***************************************************************************)
(* Model of streamlit_app.py, the IPL fantasy decision-support app.        *)
(*                                                                         *)
(* A Streamlit script is re-executed from top to bottom on every widget    *)
(* interaction.  The state is therefore the loaded dataset, the widget     *)
(* values (sidebar filters, the four per-tab multiselects, the Optimize    *)
(* button) and what the last execution of the script put on the page.      *)
(* Every action changes one widget and then runs the whole script.         *)
(*                                                                         *)
(* Representation:                                                         *)
(*   - a DataFrame is a sequence of row records (row order is kept);       *)
(*   - a text cell is a sequence of one-character strings, so that upper   *)
(*     casing and substring tests are computed, not assumed;               *)
(*   - a raw numeric cell is <<>> (null in the CSV) or <<v>>;              *)
(*   - float columns are modelled by integers;                             *)
(*   - player names are integer ids, team names are strings.               *)
(***************************************************************************)
EXTENDS Integers, Sequences, FiniteSets

VARIABLES
    df,              \* dataset returned by load_data()
    selected_teams,  \* sidebar multiselect
    min_matches,     \* sidebar slider
    min_sr,          \* sidebar slider
    max_econ,        \* sidebar slider
    chosen_wk,       \* multiselect of the Wicketkeepers tab
    chosen_bat,      \* multiselect of the Batters tab
    chosen_ar,       \* multiselect of the All-Rounders tab
    chosen_bowl,     \* multiselect of the Bowlers tab
    optimize,        \* value of the Optimize button in the last run
    filtered_df,     \* filtered view computed by the last run
    user_selection,  \* set of distinct chosen names (line 121)
    user_df,         \* manual roster as counted on line 131
    overflow,        \* st.error of line 126 was shown
    auto_team,       \* automatic roster as assembled and sorted (line 160)
    Team_Role,       \* designation column (line 161)
    exception,       \* exception that aborted the last run, or "none"
    table,           \* roster table put on the page (line 167 or 191)
    shown,           \* "none", "manual" or "auto": which roster table is shown
    summary_shown,   \* st.info with total and average was shown
    total_score,     \* total shown in the summary
    avg_divisor,     \* what the total was divided by for the average
    role_text,       \* input of the role classifier under study
    role_order_val   \* its priority, 0 while not yet computed

vars == <<df, selected_teams, min_matches, min_sr, max_econ,
          chosen_wk, chosen_bat, chosen_ar, chosen_bowl, optimize,
          filtered_df, user_selection, user_df, overflow, auto_team,
          Team_Role, exception, table, shown, summary_shown, total_score,
          avg_divisor, role_text, role_order_val>>

-----------------------------------------------------------------------------
(* Bounds of the model *)

MaxRows == 12        \* rows of the roster datasets
MaxFilterRows == 2   \* rows of the filter datasets
MaxRoleLen == 2      \* length of the generated role texts

(* Program constants *)

XI == 11                  \* roster cap
DefaultMinMatches == 5
DefaultMinSR == 100
DefaultMaxEcon == 10
SliderMinMatches == 0     \* least restrictive minimum matches
SliderMinSR == 50         \* least restrictive minimum strike rate
SliderMaxEcon == 15       \* least restrictive maximum economy rate
Unranked == 99            \* priority of a role text no bucket matches

-----------------------------------------------------------------------------
(* Generic helpers *)

Min2(a, b) == IF a <= b THEN a ELSE b

ToSet(s) == {s[i] : i \in 1..Len(s)}

RECURSIVE Sum(_)
Sum(s) == IF s = <<>> THEN 0 ELSE Head(s).Predicted_Fantasy_Score + Sum(Tail(s))

\* DataFrame.head(k)
head(t, k) == SubSeq(t, 1, Min2(k, Len(t)))

\* DataFrame.sort_values(column, ascending): rows ordered by the key.  Rows
\* with equal keys keep their relative order: for frames this short numpy's
\* default sort is an insertion sort, and pandas keeps that order for
\* descending sorts as well.  No property below depends on the order of ties.
sort_values(t, keys, ascending) ==
    LET n == Len(t)
        Before(j, i) ==
            IF keys[j] = keys[i] THEN j < i
            ELSE IF ascending THEN keys[j] < keys[i]
                 ELSE keys[j] > keys[i]
        pos == [i \in 1..n |-> 1 + Cardinality({j \in 1..n : Before(j, i)})]
                   \o <<>>
    IN  [p \in 1..n |-> t[CHOOSE i \in 1..n : pos[i] = p]] \o <<>>

\* the Predicted_Fantasy_Score column of a frame
Score(t) == [i \in 1..Len(t) |-> t[i].Predicted_Fantasy_Score] \o <<>>

-----------------------------------------------------------------------------
(* Text *)

LOWER == <<"a","b","c","d","e","f","g","h","i","j","k","l","m",
           "n","o","p","q","r","s","t","u","v","w","x","y","z">>
UPPER == <<"A","B","C","D","E","F","G","H","I","J","K","L","M",
           "N","O","P","Q","R","S","T","U","V","W","X","Y","Z">>

\* the upper-case letter of every lower-case letter
UpperOf ==
    [c \in {LOWER[i] : i \in 1..Len(LOWER)} |->
        UPPER[CHOOSE i \in 1..Len(LOWER) : LOWER[i] = c]]

\* str.upper() of one character
UpperChar(c) == IF c \in DOMAIN UpperOf THEN UpperOf[c] ELSE c

\* str.upper()
upper(s) == [i \in 1..Len(s) |-> UpperChar(s[i])] \o <<>>

\* Python's  kw in s  for strings: kw occurs in s as a contiguous substring
Contains(kw, s) ==
    \E i \in 0..(Len(s) - Len(kw)) : SubSeq(s, i + 1, i + Len(kw)) = kw

\* Python's  x in list
InList(x, l) == \E j \in 1..Len(l) : l[j] = x

-----------------------------------------------------------------------------
(* Role table *)

role_map ==
    [WK   |-> << <<"B", "A", "T", " ", "W", "K">>, <<"W", "K">> >>,
     BAT  |-> << <<"B", "A", "T">>, <<"B", "A", "T", "T", "E", "R">> >>,
     AR   |-> << <<"A", "R">>, <<"A", "L", "L", "-", "R", "O", "U", "N", "D", "E", "R">> >>,
     BOWL |-> << <<"B", "O", "W", "L">>, <<"B", "O", "W", "L", "E", "R">> >>]

\* iteration order of the dict role_map (and of role_priority)
RoleKeys == <<"WK", "BAT", "AR", "BOWL">>

role_priority == [WK |-> 1, BAT |-> 2, AR |-> 3, BOWL |-> 4]

\* the Role.str.upper().isin(keywords) mask of the tabs and of the optimizer
InBucket(r, k) == InList(upper(r.Role), role_map[k])

\* KeywordHit with list membership in place of the substring test
KeywordHit_exact(u, k) == InList(u, role_map[k])

\* any(kw in r.upper() for kw in role_map[k]), u being r.upper()
KeywordHit(u, k) ==
    \E j \in 1..Len(role_map[k]) : Contains(role_map[k][j], u)

\* the role_order lambda: priority of the first bucket, in dict order, one of
\* whose keywords is a substring of the upper-cased role text, else 99
role_order(role) ==
    LET u    == upper(role)
        hits == {i \in 1..Len(RoleKeys) : KeywordHit(u, RoleKeys[i])}
    IN  IF hits = {} THEN Unranked
        ELSE role_priority[RoleKeys[CHOOSE i \in hits : \A j \in hits : i <= j]]

\* the role_order column of a frame
RoleOrder(t) == [i \in 1..Len(t) |-> role_order(t[i].Role)] \o <<>>

(* Role texts that occur in the datasets *)
LeftArmBowler == <<"L", "e", "f", "t", "-", "A", "r", "m", " ", "B", "o", "w", "l", "e", "r">>
RoleWK == <<"W", "K">>
RoleBatter == <<"B", "a", "t", "t", "e", "r">>
RoleAR == <<"A", "R">>
RoleBowler == <<"B", "o", "w", "l", "e", "r">>
RoleBatWk == <<"b", "a", "t", " ", "w", "k">>
RoleAllrounder == <<"A", "l", "l", "r", "o", "u", "n", "d", "e", "r">>
RoleBowl == <<"B", "O", "W", "L">>

-----------------------------------------------------------------------------
(* Dataset Loader *)

\* fillna(0) of one numeric cell
fillna(cell) == IF cell = <<>> THEN 0 ELSE cell[1]

\* load_data(): numeric nulls become 0, rows of the sentinel team "-" go
load_data(raw) ==
    LET filled == [i \in 1..Len(raw) |->
                     [player_name             |-> raw[i].player_name,
                      Team_2025               |-> raw[i].Team_2025,
                      Role                    |-> raw[i].Role,
                      Total_Matches           |-> fillna(raw[i].Total_Matches),
                      Strike_Rate             |-> fillna(raw[i].Strike_Rate),
                      Economy_Rate            |-> fillna(raw[i].Economy_Rate),
                      Predicted_Fantasy_Score |-> fillna(raw[i].Predicted_Fantasy_Score)]]
                  \o <<>>
    IN  SelectSeq(filled, LAMBDA r : r.Team_2025 # "-")

-----------------------------------------------------------------------------
(* Filter Engine *)

\* Filter with the matches bound made exclusive
Filter_exclusive(d, teams, mm, sr, ec) ==
    LET f == SelectSeq(d, LAMBDA r : /\ r.Total_Matches > mm
                                     /\ r.Strike_Rate >= sr
                                     /\ r.Economy_Rate <= ec)
    IN  IF teams # {}
        THEN SelectSeq(f, LAMBDA r : r.Team_2025 \in teams)
        ELSE f

\* lines 29-36: the three-threshold mask, then the team mask when
\* selected_teams is not empty
Filter(d, teams, mm, sr, ec) ==
    LET f == SelectSeq(d, LAMBDA r : /\ r.Total_Matches >= mm
                                     /\ r.Strike_Rate >= sr
                                     /\ r.Economy_Rate <= ec)
    IN  IF teams # {}
        THEN SelectSeq(f, LAMBDA r : r.Team_2025 \in teams)
        ELSE f

-----------------------------------------------------------------------------
(* Role tabs *)

\* wk_df, bat_df, ar_df, bowl_df: rows whose upper-cased role IS a keyword
tab_df(f, k) == SelectSeq(f, LAMBDA r : InBucket(r, k))

\* role_df["player_name"].tolist(), the options of a tab's multiselect
options(f, k) ==
    LET t == tab_df(f, k)
    IN  [i \in 1..Len(t) |-> t[i].player_name] \o <<>>

-----------------------------------------------------------------------------
(* Summary / Optimize tab *)

\* line 121: list(set(chosen_wk + chosen_bat + chosen_ar + chosen_bowl))
Combine(cw, cb, ca, cbo) == ToSet(cw \o cb \o ca \o cbo)

\* lines 122-127: rows of the chosen names, cut to 11 rows on overflow
ManualRoster(f, sel) ==
    LET u == SelectSeq(f, LAMBDA r : r.player_name \in sel)
    IN  IF Cardinality(sel) > XI THEN head(u, XI) ELSE u

\* lines 139-142: the best row of one bucket, nothing for an empty bucket
Best(f, k) ==
    LET sub == tab_df(f, k)
    IN  IF Len(sub) > 0 THEN head(sort_values(sub, Score(sub), FALSE), 1) ELSE <<>>

\* lines 137-142: the loop over role_map.items(), first i buckets
RECURSIVE Picks(_, _)
Picks(f, i) == IF i = 0 THEN <<>> ELSE Picks(f, i - 1) \o Best(f, RoleKeys[i])

\* TopRemaining with the sort direction reversed
TopRemaining_lowest(remaining, k) == head(sort_values(remaining, Score(remaining), TRUE), k)

\* lines 148-150: the k best remaining rows
TopRemaining(remaining, k) == head(sort_values(remaining, Score(remaining), FALSE), k)

\* lines 144-151: fill up to 11 with rows whose name is not yet chosen
Fill(f, team) ==
    LET names == {team[i].player_name : i \in 1..Len(team)}
        remaining == SelectSeq(f, LAMBDA r : r.player_name \notin names)
    IN  IF Len(team) < XI
        THEN team \o TopRemaining(remaining, XI - Len(team))
        ELSE team

\* lines 155-158 and 186-189: sort by role priority
RoleSort(t) == sort_values(t, RoleOrder(t), TRUE)

\* ScoreSort left out: the role-priority order stays
ScoreSort_skipped(t) == t

\* line 160: sort by descending predicted score
ScoreSort(t) == sort_values(t, Score(t), FALSE)

\* lines 161-164: the list built over range(11)
Designations ==
    [i \in 1..XI |-> IF i = 1 THEN "Captain"
                     ELSE IF i = 2 THEN "Vice Captain" ELSE "Player"]

\* line 180: the automatic average divides by the literal 11
AutoDivisor(team) == XI

\* ManualDivisor with the literal of the automatic branch
ManualDivisor_literal(u) == XI

\* line 203: the manual average divides by len(user_df)
ManualDivisor(u) == Len(u)

NoOutput ==
    [auto_team |-> <<>>, Team_Role |-> <<>>, exception |-> "none",
     table |-> <<>>, shown |-> "none", summary_shown |-> FALSE,
     total_score |-> 0, avg_divisor |-> 0]

\* lines 135-180: the Optimize branch.  pd.DataFrame() has no columns, so
\* auto_team["player_name"] on line 146 raises KeyError when no bucket
\* contributed a row; the 11-element list of line 161 raises ValueError when
\* the frame does not have exactly 11 rows.
Optimize(f) ==
    LET picked == Picks(f, Len(RoleKeys))
        team   == ScoreSort(RoleSort(Fill(f, picked)))
    IN  IF picked = <<>>
        THEN [NoOutput EXCEPT !.exception = "KeyError"]
        ELSE IF Len(team) # Len(Designations)
        THEN [NoOutput EXCEPT !.exception = "ValueError", !.auto_team = team]
        ELSE [auto_team |-> team, Team_Role |-> Designations,
              exception |-> "none", table |-> team, shown |-> "auto",
              summary_shown |-> TRUE, total_score |-> Sum(team),
              avg_divisor |-> AutoDivisor(team)]

\* lines 183-205: the manual summary
Manual(u) ==
    IF Len(u) > 0
    THEN [NoOutput EXCEPT !.table = RoleSort(u), !.shown = "manual",
                          !.summary_shown = TRUE, !.total_score = Sum(u),
                          !.avg_divisor = ManualDivisor(u)]
    ELSE NoOutput

\* One execution of the script (lines 29-205) on the given widget values
Run(d, teams, mm, sr, ec, cw, cb, ca, cbo, opt) ==
    LET f   == Filter(d, teams, mm, sr, ec)
        sel == Combine(cw, cb, ca, cbo)
        u   == ManualRoster(f, sel)
    IN  [filtered_df |-> f, user_selection |-> sel, user_df |-> u,
         overflow |-> (Cardinality(sel) > XI),
         out |-> IF opt THEN Optimize(f) ELSE Manual(u)]

\* the page variables hold what the run left behind (used by Init)
PageIs(run, opt) ==
    /\ optimize = opt
    /\ filtered_df = run.filtered_df
    /\ user_selection = run.user_selection
    /\ user_df = run.user_df
    /\ overflow = run.overflow
    /\ auto_team = run.out.auto_team
    /\ Team_Role = run.out.Team_Role
    /\ exception = run.out.exception
    /\ table = run.out.table
    /\ shown = run.out.shown
    /\ summary_shown = run.out.summary_shown
    /\ total_score = run.out.total_score
    /\ avg_divisor = run.out.avg_divisor

\* the run replaces what is on the page
PageBecomes(run, opt) ==
    /\ optimize' = opt
    /\ filtered_df' = run.filtered_df
    /\ user_selection' = run.user_selection
    /\ user_df' = run.user_df
    /\ overflow' = run.overflow
    /\ auto_team' = run.out.auto_team
    /\ Team_Role' = run.out.Team_Role
    /\ exception' = run.out.exception
    /\ table' = run.out.table
    /\ shown' = run.out.shown
    /\ summary_shown' = run.out.summary_shown
    /\ total_score' = run.out.total_score
    /\ avg_divisor' = run.out.avg_divisor

\* st.multiselect keeps its value while its options stay the same and starts
\* empty again when they change
Keep(chosen, oldf, newf, k) ==
    IF options(newf, k) = options(oldf, k) THEN chosen ELSE <<>>

-----------------------------------------------------------------------------
(* Inputs *)

TeamCycle == <<"CSK", "MI", "RCB">>

TeamChoices == {{}, {"CSK", "MI"}}
MatchesChoices == {SliderMinMatches, DefaultMinMatches}
SRChoices == {SliderMinSR, DefaultMinSR}
EconChoices == {DefaultMaxEcon, SliderMaxEcon}

\* the CSVs: layout of the roles, pattern of the scores, duplicated name
Datasets ==
    {<<"mixed", "zigzag", FALSE>>, <<"mixed", "rising", TRUE>>,
     <<"sparse", "zigzag", FALSE>>, <<"sparse", "rising", TRUE>>,
     <<"unranked", "zigzag", FALSE>>}

RoleCycle(layout) ==
    IF layout = "mixed" THEN <<RoleWK, RoleBatter, RoleAR, RoleBowler>>
    ELSE IF layout = "sparse"
    THEN <<LeftArmBowler, RoleBatWk, RoleAllrounder, RoleBowl>>
    ELSE <<LeftArmBowler, RoleAllrounder, LeftArmBowler, RoleAllrounder>>

\* row i of an n-row CSV: every fourth row has no match count, every fifth a
\* low strike rate, every sixth a high economy rate; with dup the last row
\* carries the name of the first
RawRow(i, n, layout, pattern, dup) ==
    [player_name   |-> IF dup /\ i = n THEN 1 ELSE i,
     Team_2025     |-> TeamCycle[(i % 3) + 1],
     Role          |-> RoleCycle(layout)[((i - 1) % 4) + 1],
     Total_Matches |-> IF i % 4 = 0 THEN <<>> ELSE <<10>>,
     Strike_Rate   |-> IF i % 5 = 0 THEN <<80>> ELSE <<120>>,
     Economy_Rate  |-> IF i % 6 = 0 THEN <<12>> ELSE <<8>>,
     Predicted_Fantasy_Score |->
         IF pattern = "rising" THEN <<10 * i>> ELSE <<((i * 7) % 11) - 3>>]

SentinelRow ==
    [player_name |-> 0, Team_2025 |-> "-", Role |-> RoleWK,
     Total_Matches |-> <<10>>, Strike_Rate |-> <<120>>, Economy_Rate |-> <<8>>,
     Predicted_Fantasy_Score |-> <<100>>]

RawDataset(n, layout, pattern, dup) ==
    [i \in 1..n |-> RawRow(i, n, layout, pattern, dup)] \o <<SentinelRow>>

\* what the user can pick in one multiselect: nothing, the first option,
\* or every option
SelectionChoices(opts) == {<<>>, head(opts, 1), opts}

-----------------------------------------------------------------------------
(* The application *)

Defaults ==
    /\ selected_teams = {}
    /\ min_matches = DefaultMinMatches
    /\ min_sr = DefaultMinSR
    /\ max_econ = DefaultMaxEcon
    /\ chosen_wk = <<>> /\ chosen_bat = <<>>
    /\ chosen_ar = <<>> /\ chosen_bowl = <<>>
    /\ PageIs(Run(df, {}, DefaultMinMatches, DefaultMinSR, DefaultMaxEcon,
                  <<>>, <<>>, <<>>, <<>>, FALSE), FALSE)

Init ==
    /\ \E n \in 0..MaxRows, ds \in Datasets :
          df = load_data(RawDataset(n, ds[1], ds[2], ds[3]))
    /\ Defaults
    /\ role_text = <<>>
    /\ role_order_val = 0

\* one interaction changes the value of exactly one sidebar control
OneControlMoved(teams, mm, sr, ec) ==
    Cardinality({i \in 1..4 :
        <<teams, mm, sr, ec>>[i] #
            <<selected_teams, min_matches, min_sr, max_econ>>[i]}) = 1

\* the user moves a sidebar control; the script runs again
SetFilters ==
    \E teams \in TeamChoices, mm \in MatchesChoices, sr \in SRChoices,
       ec \in EconChoices :
    OneControlMoved(teams, mm, sr, ec) /\
    \E f \in {Filter(df, teams, mm, sr, ec)} :
    \E cw \in {Keep(chosen_wk, filtered_df, f, "WK")},
       cb \in {Keep(chosen_bat, filtered_df, f, "BAT")},
       ca \in {Keep(chosen_ar, filtered_df, f, "AR")},
       co \in {Keep(chosen_bowl, filtered_df, f, "BOWL")} :
    \E run \in {Run(df, teams, mm, sr, ec, cw, cb, ca, co, FALSE)} :
       /\ selected_teams' = teams
       /\ min_matches' = mm
       /\ min_sr' = sr
       /\ max_econ' = ec
       /\ chosen_wk' = cw /\ chosen_bat' = cb
       /\ chosen_ar' = ca /\ chosen_bowl' = co
       /\ PageBecomes(run, FALSE)
       /\ UNCHANGED <<df, role_text, role_order_val>>

\* the user changes the selection of one tab; the script runs again
SelectPlayers ==
    \E k \in ToSet(RoleKeys) :
    \E c \in SelectionChoices(options(filtered_df, k)) :
       LET cw == IF k = "WK" THEN c ELSE chosen_wk
           cb == IF k = "BAT" THEN c ELSE chosen_bat
           ca == IF k = "AR" THEN c ELSE chosen_ar
           co == IF k = "BOWL" THEN c ELSE chosen_bowl
       IN  /\ <<cw, cb, ca, co>> #
                 <<chosen_wk, chosen_bat, chosen_ar, chosen_bowl>>
           /\ chosen_wk' = cw /\ chosen_bat' = cb
           /\ chosen_ar' = ca /\ chosen_bowl' = co
           /\ PageBecomes(Run(df, selected_teams, min_matches, min_sr, max_econ,
                              cw, cb, ca, co, FALSE), FALSE)
           /\ UNCHANGED <<df, selected_teams, min_matches, min_sr, max_econ,
                          role_text, role_order_val>>

\* the user clicks "Optimize XI Automatically"; the script runs with
\* optimize = True
ClickOptimize ==
    /\ PageBecomes(Run(df, selected_teams, min_matches, min_sr, max_econ,
                       chosen_wk, chosen_bat, chosen_ar, chosen_bowl, TRUE),
                   TRUE)
    /\ UNCHANGED <<df, selected_teams, min_matches, min_sr, max_econ,
                   chosen_wk, chosen_bat, chosen_ar, chosen_bowl,
                   role_text, role_order_val>>

Next == SetFilters \/ SelectPlayers \/ ClickOptimize

Spec == Init /\ [][Next]_vars

-----------------------------------------------------------------------------
(* The Filter Engine on its own: every small CSV, every criteria *)

FilterCells ==
    [Team_2025     : {"CSK", "MI", "-"},
     Total_Matches : {<<>>, <<5>>},
     Strike_Rate   : {<<>>, <<50>>},
     Economy_Rate  : {<<10>>, <<16>>}]

FilterRaw(cells) ==
    [i \in 1..Len(cells) |->
        [player_name   |-> i,
         Team_2025     |-> cells[i].Team_2025,
         Role          |-> RoleWK,
         Total_Matches |-> cells[i].Total_Matches,
         Strike_Rate   |-> cells[i].Strike_Rate,
         Economy_Rate  |-> cells[i].Economy_Rate,
         Predicted_Fantasy_Score |-> <<i>>]]

InitFilter ==
    /\ \E k \in 0..MaxFilterRows :
       \E cells \in [1..k -> FilterCells] :
          df = load_data(FilterRaw(cells))
    /\ Defaults
    /\ role_text = <<>>
    /\ role_order_val = 0

NextFilter == SetFilters

SpecFilter == InitFilter /\ [][NextFilter]_vars

-----------------------------------------------------------------------------
(* The role-priority classifier on its own *)

RoleAlphabet == {"A", "R", "W", "K", "a", "r", "-"}

RoleTexts ==
    {LeftArmBowler, RoleWK, RoleBatter, RoleAR, RoleBowler, RoleBatWk,
     RoleAllrounder, RoleBowl}
    \cup UNION {[1..k -> RoleAlphabet] : k \in 0..MaxRoleLen}

InitClassify ==
    /\ df = <<>>
    /\ Defaults
    /\ role_text \in RoleTexts
    /\ role_order_val = 0

\* auto_team["Role"].apply(lambda r: ...) on one role text
Classify ==
    /\ role_order_val = 0
    /\ role_order_val' = role_order(role_text)
    /\ UNCHANGED <<df, selected_teams, min_matches, min_sr, max_econ,
                   chosen_wk, chosen_bat, chosen_ar, chosen_bowl, optimize,
                   filtered_df, user_selection, user_df, overflow, auto_team,
                   Team_Role, exception, table, shown, summary_shown,
                   total_score, avg_divisor, role_text>>

NextClassify == Classify

SpecClassify == InitClassify /\ [][NextClassify]_vars

-----------------------------------------------------------------------------
(* Properties *)

Names(t) == {t[i].player_name : i \in 1..Len(t)}

UniqueNames(t) == Cardinality(Names(t)) = Len(t)

\* C1: in manual mode, a selection of more than 11 distinct names ends in the
\* overflow error and no roster table or total/average summary is produced
\* (a roster truncated to 11 rows is never scored).
C1_OverflowBlocksScoring ==
    (~optimize /\ Cardinality(user_selection) > XI)
        => (overflow /\ shown = "none" /\ ~summary_shown)

\* C2: for every assembled automatic roster of n rows, 0 <= n <= 11, the
\* designation assignment completes without error and yields exactly n
\* designations: Captain at index 0, Vice Captain at index 1, Player elsewhere.
C2_DesignationsFitRoster ==
    (optimize /\ exception # "KeyError")
        => /\ exception = "none"
           /\ Len(Team_Role) = Len(auto_team)
           /\ \A i \in 1..Len(Team_Role) :
                 Team_Role[i] = IF i = 1 THEN "Captain"
                                ELSE IF i = 2 THEN "Vice Captain" ELSE "Player"

\* C3: clicking Optimize produces a roster of min(11, rows of the filtered
\* pool) rows, whatever the pool (empty buckets, fewer than 11 rows, shared
\* names).
C3_RosterSize ==
    optimize => /\ shown = "auto"
                /\ Len(table) = Min2(XI, Len(filtered_df))

\* C4: every roster table presented to the user, manual or automatic, has at
\* most 11 rows.
C4_AtMostEleven == Len(table) <= XI

\* C5: whenever an average is displayed it is the roster's total predicted
\* score divided by the number of rows of the displayed roster, and no average
\* is computed for a roster of 0 rows.
C5_AverageOverRows ==
    summary_shown => /\ Len(table) > 0
                     /\ total_score = Sum(table)
                     /\ avg_divisor = Len(table)

C5_Witness ==
    /\ summary_shown /\ shown = "manual"
    /\ Len(table) > 1 /\ Len(table) < XI
    /\ total_score # 0

C7_LoosestReturnsAll ==
    (/\ selected_teams = {}
     /\ min_matches = SliderMinMatches
     /\ min_sr = SliderMinSR
     /\ max_econ = SliderMaxEcon)
        => filtered_df = df

\* C8: the automatic roster is presented in non-ascending order of predicted
\* score, whatever the role-priority sort did before.
C8_NonAscending ==
    shown = "auto" =>
        \A i \in 1..(Len(table) - 1) :
            table[i].Predicted_Fantasy_Score >= table[i + 1].Predicted_Fantasy_Score

C8_Witness ==
    /\ shown = "auto"
    /\ \E i \in 1..(Len(table) - 1) :
          /\ table[i].Predicted_Fantasy_Score > table[i + 1].Predicted_Fantasy_Score
          /\ role_order(table[i].Role) > role_order(table[i + 1].Role)

\* C9 as stated: substring-priority classification gives "Left-Arm Bowler"
\* the BOWL priority (4).
C9_LeftArmBowlerIsBowl ==
    (role_text = LeftArmBowler /\ role_order_val # 0)
        => role_order_val = role_priority.BOWL

\* C9 as amended: substring-priority classification gives "Left-Arm Bowler"
\* the AR priority (3): "AR" occurs in "LEFT-ARM" and AR comes before BOWL.
C9_LeftArmBowlerIsAR ==
    (role_text = LeftArmBowler /\ role_order_val # 0)
        => role_order_val = role_priority.AR

C9_Witness == role_text = LeftArmBowler /\ role_order_val # 0

\* C10: when the names of the filtered pool are unique and automatic mode
\* produces a roster, the Captain's predicted score is the maximum predicted
\* score of the whole filtered pool.
C10_CaptainIsTopScorer ==
    (shown = "auto" /\ UniqueNames(filtered_df)) =>
        \E c \in 1..Len(table) :
            /\ Team_Role[c] = "Captain"
            /\ \A j \in 1..Len(filtered_df) :
                  table[c].Predicted_Fantasy_Score
                      >= filtered_df[j].Predicted_Fantasy_Score
            /\ \E j \in 1..Len(filtered_df) :
                  table[c].Predicted_Fantasy_Score
                      = filtered_df[j].Predicted_Fantasy_Score

\* the pool is larger than the roster and its only top scorer is in no bucket
C10_Witness ==
    /\ shown = "auto" /\ UniqueNames(filtered_df)
    /\ Len(filtered_df) > XI
    /\ \E j \in 1..Len(filtered_df) :
          /\ \A k \in ToSet(RoleKeys) : ~InBucket(filtered_df[j], k)
          /\ \A i \in 1..Len(filtered_df) :
                i # j => filtered_df[j].Predicted_Fantasy_Score
                             > filtered_df[i].Predicted_Fantasy_Score

====
